---- MODULE Spec2Model ----
(***************************************************************************)
(* Model of the search-and-filter engine of geoguessr_map_maker:           *)
(*   pano_finder.py  find_location, PanoFinder, RandomFinder               *)
(*   pano.py         the predicates over a Panorama                        *)
(*   gdf_finder.py   the per-geometry collection of the found locations    *)
(* One finder searches the rows of a GeoDataFrame, geometry by geometry;    *)
(* every lookup is a call of find_location, run either inside a task of    *)
(* find_locations (under the finder's semaphore) or directly for a Point   *)
(* geometry. filter_panos applies the policy to panoramas on its own, and   *)
(* LatticeFinder.points_in_polygon, ensure_full_pano and                   *)
(* pano_to_coordinate are called on their own.                             *)
(***************************************************************************)
EXTENDS Integers, Sequences, FiniteSets, TLC

\* ---------------------------------------------------------------- bounds
MaxConnections == 2   \* max_connections ranges over 1..MaxConnections
MaxN == 2             \* RandomFinder.n ranges over 1..MaxN
MaxRetries == 1       \* RandomFinder.max_retries ranges over 0..MaxRetries
MaxAttempts == 2      \* the attempts of one find_panorama_backoff call are counted up to MaxAttempts
Extent == 2           \* the polygons searched by lattice lie within 0..Extent in both directions

\* PanoFinder.__init__: max_connections: int = 1
DefaultMaxConnections == 1

\* --------------------------------------------------------------- state
VARIABLES
  gdf,          \* find_locations_in_geodataframe: the geometries of the rows of gdf
  panning,      \* find_locations_in_geodataframe: the panning mode of the locations
  provider,     \* the errors the provider's calls can raise in this run
  row,          \* find_locations_in_geodataframe: index of the row being searched
  coords,       \* find_locations_in_geodataframe: coords
  self,         \* the RandomFinder: max_connections, n, max_retries, ensure_n, options
  semaphore,    \* self.semaphore: its value and the tasks waiting in acquire()
  geometry,     \* the geometry being searched
  part,         \* index of the part of the geometry being searched
  pc,           \* where find_locations_in_geometry stands
  tries,        \* RandomFinder.find_locations_in_geometry: tries
  total_panos,  \* RandomFinder.find_locations_in_geometry: total_panos
  panos,        \* RandomFinder.find_locations_in_geometry: panos of the running batch
  tasks,        \* the find_location calls of the running batch
  completed,    \* as_completed: finished tasks not yet awaited, first finished first
  yielded,      \* the panoramas find_locations_in_geometry has yielded
  locations,    \* find_locations_in_geodataframe: the dict of the row
  found,        \* find_locations_in_geodataframe: the locations the row has yielded
  filtering,    \* filter_panos: options, panos, the panoramas evaluated and kept so
                \* far, the calls of find_panorama_by_id made for them and the
                \* checks made on them
  call          \* a call of one function on its own: the function, its
                \* arguments, whether it has ended, and how

\* what the search of one geometry leaves alone
outer == <<gdf, panning, provider, row, coords, filtering, call>>

vars ==
  <<outer, self, semaphore, geometry, part, pc, tries, total_panos, panos, tasks,
    completed, yielded, locations, found>>

\* An optional value (Python's "X | None") is the empty sequence for None and
\* the one-element sequence <<x>> for a value x.
None == <<>>
Some(x) == <<x>>

\* ------------------------------------------------------------ panoramas
\* PredicateOption
Ignore == "Ignore"
Require == "Require"
Reject == "Reject"
PredicateOption == {Ignore, Require, Reject}

\* LocationOptions(), every field at its default
DefaultLocationOptions ==
  [trekker |-> Ignore, reject_gen_1 |-> FALSE, intersections |-> Ignore,
   buildings |-> Ignore, allow_third_party |-> Reject]

\* A Panorama as find_panorama_backoff wraps it: has_extended_info=True,
\* has_places=False. places is what the provider holds for the id (what a fetch
\* by id returns); street_names is the sequence of the angle counts of the
\* street labels; image_size is the last (largest) of image_sizes.
MkPanorama(id, third_party, source, size) ==
  [id |-> id, is_third_party |-> third_party, source |-> source,
   street_names |-> <<2>>, image_size |-> size, places |-> <<>>,
   has_extended_info |-> TRUE, has_places |-> FALSE]

\* The panoramas the provider can answer with: two official car panoramas
\* and one third party panorama.
OfficialPanos == {MkPanorama(i, FALSE, "launch", <<16384, 8192>>) : i \in {1, 2}}
ThirdPartyPanos == {MkPanorama(0, TRUE, "photos", <<8192, 4096>>)}
Panos == OfficialPanos \cup ThirdPartyPanos

\* place types that name an area or a feature, not a building (excerpt)
not_building_place_types == {"Country", "Locality", "Road", "Route", "Park", "Water"}

\* has_building: None when there are no places at all
has_building(pano) ==
  IF pano.places = <<>> THEN None
  ELSE Some(\E i \in 1..Len(pano.places) : pano.places[i] \notin not_building_place_types)

is_trekker(pano) == pano.source \in {"scout", "innerspace", "cultural_institute"}

is_intersection(pano) ==
  IF pano.street_names = <<>> THEN FALSE
  ELSE Len(pano.street_names) > 1 \/ pano.street_names[1] > 2

\* camera_gen, in tenths of a generation: 10, 25 (generation 2 or 3), 40, or None
\* "if pano.pano.is_third_party: return None" left out
camera_gen_by_size_alone(pano) ==
  IF pano.image_size = <<3328, 1664>> THEN Some(10)
  ELSE IF pano.image_size = <<13312, 6656>> THEN Some(25)
  ELSE IF pano.image_size = <<16384, 8192>> THEN Some(40)
  ELSE None

camera_gen(pano) ==
  IF pano.is_third_party THEN None
  ELSE IF pano.image_size = <<3328, 1664>> THEN Some(10)
  ELSE IF pano.image_size = <<13312, 6656>> THEN Some(25)
  ELSE IF pano.image_size = <<16384, 8192>> THEN Some(40)
  ELSE None

\* predicate(pano, session) for the predicates is_panorama_wanted passes on
call_predicate(predicate, pano) ==
  IF predicate = "is_trekker" THEN is_trekker(pano) ELSE is_intersection(pano)

\* the last "return True" left out
_check_predicate_falls_through(pano, option, predicate) ==
  IF option = Require THEN call_predicate(predicate, pano)
  ELSE IF option = Reject THEN ~call_predicate(predicate, pano)
  ELSE FALSE

_check_predicate(pano, option, predicate) ==
  IF option = Require THEN call_predicate(predicate, pano)
  ELSE IF option = Reject THEN ~call_predicate(predicate, pano)
  ELSE TRUE

\* "if building is None" left out: None is falsy
_check_buildings_unsure(pano, option) ==
  IF option = Ignore THEN TRUE
  ELSE LET building == has_building(pano) IN
       IF option = Reject THEN building = None \/ ~building[1]
       ELSE building # None /\ building[1]

_check_buildings(pano, option) ==
  IF option = Ignore THEN TRUE
  ELSE LET building == has_building(pano) IN
       IF building = None THEN FALSE
       ELSE IF option = Reject THEN ~building[1]
       ELSE building[1]

is_panorama_wanted(pano, opts) ==
  LET options == IF opts = None THEN DefaultLocationOptions ELSE opts[1] IN
  IF options.allow_third_party = Require /\ ~pano.is_third_party THEN FALSE
  ELSE IF options.allow_third_party = Reject /\ pano.is_third_party THEN FALSE
  ELSE IF ~_check_buildings(pano, options.buildings) THEN FALSE
  ELSE IF ~_check_predicate(pano, options.trekker, "is_trekker") THEN FALSE
  ELSE IF ~_check_predicate(pano, options.intersections, "is_intersection") THEN FALSE
  ELSE IF options.reject_gen_1
       THEN LET gen == camera_gen(pano) IN gen = None \/ gen[1] > 10
       ELSE TRUE

\* ensure_full_pano(pano, session): the calls of find_panorama_by_id it makes
ensure_full_pano_calls(pano) ==
  IF pano.has_extended_info /\ pano.has_places THEN 0 ELSE 1

\* The calls of find_panorama_by_id a predicate makes for pano: has_building
\* needs the places; is_trekker, is_intersection and max_image_size need the
\* extended info. Each predicate fetches for itself: the panorama of the
\* caller is not replaced.
has_building_calls(pano) ==
  IF ~pano.has_places THEN ensure_full_pano_calls(pano) ELSE 0
call_predicate_calls(pano) ==
  IF ~pano.has_extended_info THEN ensure_full_pano_calls(pano) ELSE 0
max_image_size_calls(pano) ==
  IF ~pano.has_extended_info THEN ensure_full_pano_calls(pano) ELSE 0
camera_gen_calls(pano) ==
  IF pano.is_third_party THEN 0 ELSE max_image_size_calls(pano)
_check_predicate_calls(pano, option) ==
  IF option \in {Require, Reject} THEN call_predicate_calls(pano) ELSE 0
_check_buildings_calls(pano, option) ==
  IF option = Ignore THEN 0 ELSE has_building_calls(pano)

\* every predicate awaited before any verdict is looked at
is_panorama_wanted_calls_gathered(pano, opts) ==
  LET options == IF opts = None THEN DefaultLocationOptions ELSE opts[1] IN
  _check_buildings_calls(pano, options.buildings)
    + _check_predicate_calls(pano, options.trekker)
    + _check_predicate_calls(pano, options.intersections)
    + camera_gen_calls(pano)

\* is_panorama_wanted: the calls of find_panorama_by_id made until it returns
is_panorama_wanted_calls(pano, opts) ==
  LET options == IF opts = None THEN DefaultLocationOptions ELSE opts[1]
      buildings == _check_buildings_calls(pano, options.buildings)
      trekker == buildings + _check_predicate_calls(pano, options.trekker)
      intersections == trekker + _check_predicate_calls(pano, options.intersections)
  IN
  IF options.allow_third_party = Require /\ ~pano.is_third_party THEN 0
  ELSE IF options.allow_third_party = Reject /\ pano.is_third_party THEN 0
  ELSE IF ~_check_buildings(pano, options.buildings) THEN buildings
  ELSE IF ~_check_predicate(pano, options.trekker, "is_trekker") THEN trekker
  ELSE IF ~_check_predicate(pano, options.intersections, "is_intersection")
       THEN intersections
  ELSE intersections + camera_gen_calls(pano)

\* is_panorama_wanted: its checks, in the order of its statements
checkers ==
  <<"allow_third_party", "_check_buildings", "is_trekker", "is_intersection", "camera_gen">>

\* is_panorama_wanted: the checks made until it returns
is_panorama_wanted_checks(pano, opts) ==
  LET options == IF opts = None THEN DefaultLocationOptions ELSE opts[1] IN
  IF options.allow_third_party = Require /\ ~pano.is_third_party THEN SubSeq(checkers, 1, 1)
  ELSE IF options.allow_third_party = Reject /\ pano.is_third_party THEN SubSeq(checkers, 1, 1)
  ELSE IF ~_check_buildings(pano, options.buildings) THEN SubSeq(checkers, 1, 2)
  ELSE IF ~_check_predicate(pano, options.trekker, "is_trekker") THEN SubSeq(checkers, 1, 3)
  ELSE IF ~_check_predicate(pano, options.intersections, "is_intersection")
       THEN SubSeq(checkers, 1, 4)
  ELSE checkers

\* LocationOptions: every value of every field
LocationOptions ==
  [trekker : PredicateOption, reject_gen_1 : BOOLEAN, intersections : PredicateOption,
   buildings : PredicateOption, allow_third_party : PredicateOption]

\* The panoramas is_panorama_wanted meets: as find_panorama_backoff wraps them
\* (extended info, no places), as get_panos_in_geometry_via_tiles wraps them
\* (no extended info), and as ensure_full_pano returns them (both). links is
\* the number of links of the panorama; the dead ends come with one street and
\* no place.
PolicyPanos ==
  {p \in [id : {1}, is_third_party : BOOLEAN, source : {"launch", "scout"},
           street_names : {<<>>, <<2>>, <<3>>, <<2, 2>>},
           image_size : {<<3328, 1664>>, <<13312, 6656>>, <<16384, 8192>>, <<8192, 4096>>},
           places : {<<>>, <<"Road">>, <<"Road", "Restaurant">>},
           links : {1, 2},
           has_extended_info : BOOLEAN, has_places : BOOLEAN] :
     /\ p.has_places => p.has_extended_info
     /\ p.links = 1 => (p.source = "launch" /\ p.street_names = <<2>> /\ p.places = <<>>)}

\* is_terminus(pano, session): len(pano.pano.links) == 1
is_terminus(pano) == pano.links = 1

\* ------------------------------------------------------------- geometry
\* A geometry is a kind and its geoms: the member points of a MultiPoint, the
\* parts of a GeometryCollection.
Geom(kind) ==
  [kind |-> kind,
   geoms |-> IF kind = "MultiPoint" THEN <<"Point", "Point">> ELSE <<>>]
GeometryCollection(parts) == [kind |-> "GeometryCollection", geoms |-> parts]
Geometries ==
  {Geom("Point"), Geom("MultiPoint"), Geom("Polygon"),
   GeometryCollection(<<Geom("Polygon"), Geom("Point")>>),
   GeometryCollection(<<Geom("Polygon"), Geom("Polygon")>>)}

\* The parts find_locations_in_geometry visits, in order: a GeometryCollection
\* recurses part by part, any other geometry is searched itself.
Leaves(g) == IF g.kind = "GeometryCollection" THEN g.geoms ELSE <<g>>

\* random_points_in_poly(polygon, n): the number of points it returns
random_points_in_poly(n) == n

\* PanoFinder.points_in_multipoint: the member points themselves
points_in_multipoint(g) == Len(g.geoms)

\* only the points still missing asked for
points_in_polygon_shortfall(finder) ==
  random_points_in_poly(finder.n - Len(total_panos))

\* RandomFinder.points_in_polygon: always asks for self.n points
points_in_polygon(finder) == random_points_in_poly(finder.n)

\* PanoFinder._points_in_geometry: the kinds it has a branch for; for any
\* other geometry (kind "BaseGeometry" here) it raises NotImplementedError
implemented ==
  {"MultiPoint", "Polygon", "MultiPolygon", "LinearRing", "LineString", "MultiLineString"}
not_implemented(g) == g.kind \notin implemented

\* the try of the retry loop left out
except_NotImplementedError_plain_only(in_loop) == ~in_loop

\* "except NotImplementedError" around _points_in_geometry, in
\* PanoFinder.find_locations_in_geometry and in the retry loop: both catch
except_NotImplementedError(in_loop) == TRUE

\* PanoFinder._points_in_geometry: the number of candidate points of a batch
_points_in_geometry(finder, g) ==
  IF g.kind = "MultiPoint" THEN points_in_multipoint(g)
  ELSE points_in_polygon(finder)

\* The options a finder is built with: none, the defaults (third party
\* rejected), third party allowed, third party required.
OptionChoices ==
  {None} \cup
  {Some([DefaultLocationOptions EXCEPT !.allow_third_party = o]) : o \in PredicateOption}

\* A find_location call: st is its position, permit whether it runs inside
\* "async with self.semaphore", tier1 what became of the official lookup, calls
\* the number of find_panorama_backoff calls made, result what it returned,
\* attempts the provider calls made by the running find_panorama_backoff call,
\* error the last error the provider raised in it.
NewTask ==
  [st |-> "created", permit |-> FALSE, tier1 |-> "pending", calls |-> 0,
   result |-> None, attempts |-> 0, error |-> None]
Consumed == [NewTask EXCEPT !.st = "consumed"]
\* find_location entered: the official lookup is issued first
Lookup(permit) ==
  [NewTask EXCEPT !.st = "official", !.permit = permit, !.calls = 1, !.attempts = 1]

\* the provider call of task t is out
Calling(t) == tasks[t].st \in {"official", "secondary"}
\* find_location of task t is in progress: calling the provider, or asleep
\* between two attempts
InFlight(t) == Calling(t) \/ tasks[t].st = "backoff"

\* The finders and the geometries searched, as pairs <<finder, geometry>>:
\* without the retry loop, one connection (the default) or MaxConnections and
\* up to MaxN points asked for, and every option for one or two connections
\* and points;
Fanouts ==
  ([max_connections : {DefaultMaxConnections, MaxConnections}, n : 1..MaxN,
    max_retries : {MaxRetries}, ensure_n : {FALSE}, options : {None}]
   \cup
   [max_connections : {DefaultMaxConnections, 2}, n : {1, 2},
    max_retries : {MaxRetries}, ensure_n : {FALSE}, options : OptionChoices])
  \X Geometries
\* with the retry loop, one connection (the default) and no options;
Retries ==
  [max_connections : {DefaultMaxConnections}, n : 1..MaxN, max_retries : 0..MaxRetries,
   ensure_n : {TRUE}, options : {None}] \X Geometries
\* the retry loop over several connections;
ConcurrentRetries ==
  [max_connections : {2}, n : {2}, max_retries : {1},
   ensure_n : {TRUE}, options : {None}] \X {Geom("Polygon")}
\* n=5 and max_retries=1.
Scenario4 ==
  [max_connections : {DefaultMaxConnections}, n : {5}, max_retries : {1},
   ensure_n : {TRUE}, options : {None}] \X {Geom("Polygon")}
Searches == Fanouts \cup Retries \cup ConcurrentRetries \cup Scenario4

\* The errors the provider call raises: a connection error, a malformed
\* response, an HTTP error status.
Errors == {"ClientConnectionError", "JSONDecodeError", "ClientResponseError"}

\* A run of find_locations_in_geodataframe: the finder, the geometries of the
\* rows, the panning mode, and the errors the provider raises during the run.
\* The searches above are runs over one row during which the provider raises
\* no connection error and no malformed response;
Run(finder, rows, mode, errors) ==
  [finder |-> finder, gdf |-> rows, panning |-> mode, provider |-> errors]
SearchRuns ==
  {Run(search[1], <<search[2]>>, "Default", {"ClientResponseError"}) : search \in Searches}
\* a provider that raises every error, with and without the retry loop and the
\* second lookup.
FlakyRuns ==
  {Run(finder, <<g>>, "Default", Errors) :
     finder \in [max_connections : {DefaultMaxConnections, 2}, n : {2}, max_retries : {1},
                 ensure_n : BOOLEAN,
                 options : {None, Some([DefaultLocationOptions EXCEPT !.allow_third_party = Ignore])}],
     g \in {Geom("Point"), Geom("Polygon")}}
\* two rows, searched one after the other;
TwoRowRuns ==
  {Run(finder, rows, "Default", {"ClientResponseError"}) :
     finder \in [max_connections : {DefaultMaxConnections}, n : {1, 2}, max_retries : {1},
                 ensure_n : BOOLEAN, options : {None}],
     rows \in {<<Geom("Point"), Geom("Point")>>, <<Geom("MultiPoint"), Geom("Point")>>,
               <<Geom("Polygon"), Geom("MultiPoint")>>}}
\* locations panned at random.
RandomPanningRuns ==
  {Run(finder, <<g>>, "Random", {"ClientResponseError"}) :
     finder \in [max_connections : {DefaultMaxConnections}, n : {2}, max_retries : {1},
                 ensure_n : BOOLEAN, options : {None}],
     g \in {Geom("MultiPoint"), Geom("Polygon")}}
\* a geometry of a kind _points_in_geometry has no branch for, alone and in
\* a GeometryCollection.
UnhandledRuns ==
  {Run(finder, <<g>>, "Default", {"ClientResponseError"}) :
     finder \in [max_connections : {DefaultMaxConnections}, n : {1}, max_retries : {0, 1},
                 ensure_n : BOOLEAN, options : {None}],
     g \in {Geom("BaseGeometry"),
            GeometryCollection(<<Geom("BaseGeometry"), Geom("Polygon")>>)}}
Runs ==
  SearchRuns \cup FlakyRuns \cup TwoRowRuns \cup RandomPanningRuns \cup UnhandledRuns

\* no call of filter_panos. terminus is the sixth value that
\* parse_location_option_args hands to LocationOptions, which has no field
\* for it.
NotFiltering ==
  [options |-> None, terminus |-> Ignore, panos |-> <<>>, evaluated |-> 0,
   wanted |-> <<>>, calls |-> 0, checks |-> <<>>]

\* no function called on its own
NoCall == [function |-> "none", args |-> <<>>, returned |-> FALSE, result |-> <<>>]
\* the call of a function with its arguments, before its first statement
Call(function, args) ==
  [function |-> function, args |-> args, returned |-> FALSE, result |-> <<>>]

\* PanoFinder.__init__ / RandomFinder.__init__, and the first row
InitRun(run) ==
  /\ self = run.finder
  /\ gdf = run.gdf
  /\ panning = run.panning
  /\ provider = run.provider
  /\ geometry = gdf[1]
  /\ row = 1
  /\ coords = <<>>
  /\ semaphore = [value |-> self.max_connections, waiters |-> <<>>]
  /\ part = 1
  /\ pc = "geometry"
  /\ tries = 0
  /\ total_panos = <<>>
  /\ panos = <<>>
  /\ tasks = <<>>
  /\ completed = <<>>
  /\ yielded = <<>>
  /\ locations = <<>>
  /\ found = <<>>

Init ==
  /\ \E run \in Runs : InitRun(run)
  /\ filtering = NotFiltering
  /\ call = NoCall


\* ------------------------------------------------------------- lookups
\* The provider's answers to find_panorama_backoff: no panorama, or one
Responses == {None} \cup {Some(p) : p \in Panos}

\* no options taken for options that allow third party coverage
allow_third_party_without_options(options) ==
  IF options = None THEN TRUE ELSE options[1].allow_third_party # Reject

\* find_location: allow_third_party
allow_third_party(options) ==
  IF options = None THEN FALSE ELSE options[1].allow_third_party # Reject

\* a found panorama kept without asking is_panorama_wanted
not_wanted_unfiltered(pano, options) == pano = None

\* the policy asked with options of its own, not with those of the caller
not_wanted_by_defaults(pano, options) ==
  pano = None \/ ~is_panorama_wanted(pano[1], None)

\* find_location: "not pano or not await is_panorama_wanted(pano, session, options)"
not_wanted(pano, options) ==
  pano = None \/ ~is_panorama_wanted(pano[1], options)

\* a limiter that admits one lookup too many
locked_one_late(sem) == sem.value < 0 \/ sem.waiters # <<>>

\* a limiter that keeps one permit back
locked_below_two(sem) == sem.value <= 1 \/ sem.waiters # <<>>

\* asyncio.Semaphore.locked(), as acquire() asks it
locked(sem) == sem.value = 0 \/ sem.waiters # <<>>

\* asyncio.Semaphore.release(): the permit goes to the first waiter, if any
release(sem) ==
  IF sem.waiters # <<>> THEN [sem EXCEPT !.waiters = Tail(@)]
  ELSE [sem EXCEPT !.value = @ + 1]

\* a permit released only when the lookup returns
aexit_releases_on_return(raised) == ~raised

\* "async with self.semaphore": whether leaving the block releases the permit,
\* given that the block raised or returned
aexit_releases(raised) == TRUE

\* The find_location call of task t ends as record rec (returned or raised):
\* _find_location leaves "async with", the task is done and as_completed
\* queues it. A waiter given the permit enters find_location.
Finish(t, rec, raised) ==
  LET releasing == tasks[t].permit /\ aexit_releases(raised)
      woken == IF releasing /\ semaphore.waiters # <<>>
               THEN {Head(semaphore.waiters)} ELSE {}
  IN /\ semaphore' = IF releasing THEN release(semaphore) ELSE semaphore
     /\ tasks' = [i \in DOMAIN tasks |->
                    IF i = t THEN rec
                    ELSE IF i \in woken THEN Lookup(TRUE)
                    ELSE tasks[i]]
     /\ completed' = Append(completed, t)

Returned(tier, calls, result) ==
  [st |-> "done", permit |-> FALSE, tier1 |-> tier, calls |-> calls, result |-> result,
   attempts |-> 0, error |-> None]

\* every error retried
retried_any(error) == TRUE

\* backoff.on_exception(backoff.expo, (aiohttp.ClientConnectionError,
\* json.JSONDecodeError)): the errors that are retried
retried(error) == error \in {"ClientConnectionError", "JSONDecodeError"}

\* backoff.on_exception(...): no max_tries is passed
max_tries == None

\* backoff: the retries give up once max_tries attempts are made
giveup(attempts) == max_tries # None /\ attempts >= max_tries[1]

\* PanoFinder._find_location: "async with self.semaphore". Tasks take their
\* first step in the order create_task made them.
AcquireSemaphore(t) ==
  /\ tasks[t].st = "created"
  /\ \A j \in 1..(t - 1) : tasks[j].st # "created"
  /\ IF ~locked(semaphore)
     THEN /\ semaphore' = [semaphore EXCEPT !.value = @ - 1]
          /\ tasks' = [tasks EXCEPT ![t] = Lookup(TRUE)]
     ELSE /\ semaphore' = [semaphore EXCEPT !.waiters = Append(@, t)]
          /\ tasks' = [tasks EXCEPT ![t].st = "waiting"]
  /\ UNCHANGED <<outer, self, geometry, part, pc, tries, total_panos, panos, completed,
                 yielded, locations, found>>

\* find_location: the official lookup answers with pano
OfficialReturns(t) ==
  /\ tasks[t].st = "official"
  /\ \E pano \in Responses :
       LET tier == IF pano = None THEN "none"
                   ELSE IF not_wanted(pano, self.options) THEN "rejected"
                   ELSE "accepted"
       IN IF not_wanted(pano, self.options)
          THEN IF allow_third_party(self.options)
               THEN /\ tasks' = [tasks EXCEPT ![t].st = "secondary",
                                              ![t].tier1 = tier, ![t].calls = 2,
                                              ![t].attempts = 1]
                    /\ UNCHANGED <<semaphore, completed>>
               ELSE Finish(t, Returned(tier, 1, None), FALSE)
          ELSE Finish(t, Returned(tier, 1, pano), FALSE)
  /\ UNCHANGED <<outer, self, geometry, part, pc, tries, total_panos, panos, yielded,
                 locations, found>>

\* find_location: the lookup with search_third_party answers with pano
SecondaryReturns(t) ==
  /\ tasks[t].st = "secondary"
  /\ \E pano \in Responses :
       IF not_wanted(pano, self.options)
       THEN Finish(t, Returned(tasks[t].tier1, tasks[t].calls, None), FALSE)
       ELSE Finish(t, Returned(tasks[t].tier1, tasks[t].calls, pano), FALSE)
  /\ UNCHANGED <<outer, self, geometry, part, pc, tries, total_panos, panos, yielded,
                 locations, found>>

\* find_panorama_backoff raises an error it does not retry (or no longer
\* retries): find_location and _find_location raise it on
LookupRaises(t) ==
  /\ Calling(t)
  /\ \E error \in provider :
       /\ ~retried(error) \/ giveup(tasks[t].attempts)
       /\ Finish(t, [tasks[t] EXCEPT !.st = "raised", !.permit = FALSE,
                                     !.error = Some(error)], TRUE)
  /\ UNCHANGED <<outer, self, geometry, part, pc, tries, total_panos, panos, yielded,
                 locations, found>>

\* The provider call raises an error that backoff retries: the call sleeps
\* (backoff.expo) before its next attempt
TransientError(t) ==
  /\ Calling(t)
  /\ \E error \in provider :
       /\ retried(error) /\ ~giveup(tasks[t].attempts)
       /\ tasks' = [tasks EXCEPT ![t].st = "backoff", ![t].error = Some(error)]
  /\ UNCHANGED <<outer, self, semaphore, geometry, part, pc, tries, total_panos, panos,
                 completed, yielded, locations, found>>

\* backoff: the sleep is over, the provider is called again. attempts stops
\* counting at MaxAttempts.
BackoffRetries(t) ==
  /\ tasks[t].st = "backoff"
  /\ tasks' = [tasks EXCEPT
                 ![t].st = IF tasks[t].calls = 1 THEN "official" ELSE "secondary",
                 ![t].attempts = IF @ < MaxAttempts THEN @ + 1 ELSE @,
                 ![t].error = None]
  /\ UNCHANGED <<outer, self, semaphore, geometry, part, pc, tries, total_panos, panos,
                 completed, yielded, locations, found>>


\* ------------------------------------------------- the search of a geometry
\* random.uniform(0, 360): two of the headings it draws
random_uniform == {90, 270}

\* the draws a location can be made with: none is used unless panning is Random
Draws == IF panning = "Random" THEN random_uniform ELSE {0}

\* get_panning: a random heading, or the heading of the panorama
\* (numpy.degrees(pano.heading): the panoramas of the model all head north)
get_panning(pano, mode, random) == IF mode = "Random" THEN random ELSE 0

\* pano_to_coordinate: the location record made of a yielded panorama; extra
\* is the scalar data of the row, which tells the rows apart
pano_to_coordinate(pano, extra, mode, random) ==
  [pano_id |-> pano.id, panning |-> get_panning(pano, mode, random), extra |-> extra]

\* locations = {location.pano_id: location async for location in found}:
\* one more location arrives. A dict keeps a key where it was first inserted.
\* a list that takes every location
list_append(d, loc) == Append(d, loc)

dict_set(d, loc) ==
  IF \E i \in 1..Len(d) : d[i].pano_id = loc.pano_id
  THEN [i \in 1..Len(d) |-> IF d[i].pano_id = loc.pano_id THEN loc ELSE d[i]]
  ELSE Append(d, loc)

\* the dict once the locations locs have arrived, in order
RECURSIVE found_locations(_, _)
found_locations(d, locs) ==
  IF locs = <<>> THEN d
  ELSE found_locations(dict_set(d, Head(locs)), Tail(locs))

\* one dict kept from row to row
same_dict(previous) == previous

\* locations = {...}: every row builds a new dict
new_dict(previous) == <<>>

\* every accumulated panorama yielded
first_n_untruncated(ps, n) == ps

\* total_panos[-self.n :]
last_n(ps, n) == SubSeq(ps, IF Len(ps) < n THEN 1 ELSE Len(ps) - n + 1, Len(ps))

\* total_panos[: self.n]
first_n(ps, n) == SubSeq(ps, 1, IF Len(ps) < n THEN Len(ps) ELSE n)

\* a budget that allows one attempt more
bail_out_one_late(max_retries, t) == max_retries # 0 /\ t > max_retries + 1

\* RandomFinder.find_locations_in_geometry: "self.max_retries and (tries > self.max_retries)"
bail_out(max_retries, t) == max_retries # 0 /\ t > max_retries

\* RandomFinder.find_locations_in_geometry: the geometries the retry loop takes
ensure_n_applies(finder, g) ==
  finder.ensure_n /\ g.kind \notin {"Point", "GeometryCollection"}

\* find_locations: one task per point
create_tasks(k) == [i \in 1..k |-> NewTask]

Part == Leaves(geometry)[part]

\* the finished task that was submitted first
earliest_submitted(queue) ==
  CHOOSE t \in {queue[i] : i \in 1..Len(queue)} :
    \A i \in 1..Len(queue) : t <= queue[i]

\* tqdm.as_completed(tasks): the next result is that of the task that
\* finished first among those not yet awaited
as_completed(queue) == Head(queue)

\* the queue of finished tasks once the result of task t is awaited
awaited(queue, t) == SelectSeq(queue, LAMBDA u : u # t)
AllOthersConsumed(t) == \A j \in DOMAIN tasks : j # t => tasks[j].st = "consumed"

\* the Point looked up through _find_location, under the semaphore
FindLocationOfPointLimited ==
  /\ pc = "geometry"
  /\ part <= Len(Leaves(geometry))
  /\ ~ensure_n_applies(self, Part)
  /\ Part.kind = "Point"
  /\ tasks' = <<NewTask>>
  /\ pc' = "point"
  /\ UNCHANGED <<outer, self, semaphore, geometry, part, tries, total_panos, panos,
                 completed, yielded, locations, found>>

\* PanoFinder.find_locations_in_geometry, Point: find_location is awaited in
\* place, outside the semaphore
FindLocationOfPoint ==
  /\ pc = "geometry"
  /\ part <= Len(Leaves(geometry))
  /\ ~ensure_n_applies(self, Part)
  /\ Part.kind = "Point"
  /\ tasks' = <<Lookup(FALSE)>>
  /\ pc' = "point"
  /\ UNCHANGED <<outer, self, semaphore, geometry, part, tries, total_panos, panos,
                 completed, yielded, locations, found>>

\* PanoFinder.find_locations_in_geometry, any other part, without the retry
\* loop: find_locations over the points of the part
FindLocationsInPart ==
  /\ pc = "geometry"
  /\ part <= Len(Leaves(geometry))
  /\ ~ensure_n_applies(self, Part)
  /\ Part.kind # "Point"
  /\ ~not_implemented(Part)
  /\ tasks' = create_tasks(_points_in_geometry(self, Part))
  /\ pc' = "find_locations"
  /\ UNCHANGED <<outer, self, semaphore, geometry, part, tries, total_panos, panos,
                 completed, yielded, locations, found>>

\* PanoFinder.find_locations_in_geometry: _points_in_geometry raises
\* NotImplementedError; caught, a warning is logged and the generator of this
\* part returns
SkipGeometry ==
  /\ pc = "geometry"
  /\ part <= Len(Leaves(geometry))
  /\ ~ensure_n_applies(self, Part)
  /\ Part.kind # "Point"
  /\ not_implemented(Part)
  /\ IF except_NotImplementedError(FALSE)
     THEN part' = part + 1 /\ pc' = pc
     ELSE part' = part /\ pc' = "not_implemented"
  /\ UNCHANGED <<outer, self, semaphore, geometry, tries, total_panos, panos, tasks,
                 completed, yielded, locations, found>>

\* RandomFinder.find_locations_in_geometry with ensure_n: the loop is entered
EnsureN ==
  /\ pc = "geometry"
  /\ part <= Len(Leaves(geometry))
  /\ ensure_n_applies(self, Part)
  /\ tries' = 0
  /\ total_panos' = <<>>
  /\ panos' = <<>>
  /\ pc' = "while"
  /\ UNCHANGED <<outer, self, semaphore, geometry, part, tasks, completed, yielded,
                 locations, found>>

\* every part is searched: the generator ends
GeometryDone ==
  /\ pc = "geometry"
  /\ part > Len(Leaves(geometry))
  /\ pc' = "done"
  /\ UNCHANGED <<outer, self, semaphore, geometry, part, tries, total_panos, panos,
                 tasks, completed, yielded, locations, found>>

\* while len(total_panos) < self.n: one more batch of points is searched.
\* Where the loop has no budget, the model stops it after MaxRetries + 1 tries.
WhileBatch ==
  /\ pc = "while"
  /\ Len(total_panos) < self.n
  /\ ~bail_out(self.max_retries, tries + 1)
  /\ tries < MaxRetries + 1
  /\ ~not_implemented(Part)
  /\ tries' = tries + 1
  /\ tasks' = create_tasks(_points_in_geometry(self, Part))
  /\ panos' = <<>>
  /\ pc' = "collect"
  /\ UNCHANGED <<outer, self, semaphore, geometry, part, total_panos, completed,
                 yielded, locations, found>>

\* while len(total_panos) < self.n: _points_in_geometry raises
\* NotImplementedError; caught, a warning is logged and the generator of this
\* part returns without a yield
WhileSkip ==
  /\ pc = "while"
  /\ Len(total_panos) < self.n
  /\ ~bail_out(self.max_retries, tries + 1)
  /\ not_implemented(Part)
  /\ tries' = tries + 1
  /\ IF except_NotImplementedError(TRUE)
     THEN part' = part + 1 /\ pc' = "geometry"
     ELSE part' = part /\ pc' = "not_implemented"
  /\ UNCHANGED <<outer, self, semaphore, geometry, total_panos, panos, tasks,
                 completed, yielded, locations, found>>

\* while len(total_panos) < self.n: max tries reached, break
WhileBail ==
  /\ pc = "while"
  /\ Len(total_panos) < self.n
  /\ bail_out(self.max_retries, tries + 1)
  /\ tries' = tries + 1
  /\ pc' = "yield"
  /\ UNCHANGED <<outer, self, semaphore, geometry, part, total_panos, panos, tasks,
                 completed, yielded, locations, found>>

\* while len(total_panos) < self.n: the condition fails
WhileExit ==
  /\ pc = "while"
  /\ Len(total_panos) >= self.n
  /\ pc' = "yield"
  /\ UNCHANGED <<outer, self, semaphore, geometry, part, tries, total_panos, panos,
                 tasks, completed, yielded, locations, found>>

\* for pano in total_panos[: self.n]: yield pano; the row's dict takes each
YieldTotalPanos ==
  /\ pc = "yield"
  /\ yielded' = yielded \o first_n(total_panos, self.n)
  /\ \E randoms \in [1..Len(first_n(total_panos, self.n)) -> Draws] :
       LET locs == [i \in 1..Len(first_n(total_panos, self.n)) |->
                      pano_to_coordinate(first_n(total_panos, self.n)[i], row,
                                         panning, randoms[i])]
       IN /\ found' = found \o locs
          /\ locations' = found_locations(locations, locs)
  /\ part' = part + 1
  /\ pc' = "geometry"
  /\ UNCHANGED <<outer, self, semaphore, geometry, tries, total_panos, panos, tasks,
                 completed>>

\* find_locations inside the retry loop: "pano = await result" of the next
\* finished task; the list comprehension keeps a panorama. After the last
\* task, total_panos += panos.
CollectResult ==
  /\ pc = "collect"
  /\ completed # <<>>
  /\ LET t == as_completed(completed)
         got == IF tasks[t].result # None THEN Append(panos, tasks[t].result[1])
                ELSE panos
     IN /\ tasks[t].st = "done"
        /\ panos' = got
        /\ IF AllOthersConsumed(t)
           THEN /\ total_panos' = total_panos \o got
                /\ tasks' = <<>>
                /\ pc' = "while"
           ELSE /\ tasks' = [tasks EXCEPT ![t] = Consumed]
                /\ UNCHANGED <<total_panos, pc>>
        /\ completed' = awaited(completed, t)
  /\ UNCHANGED <<outer, self, semaphore, geometry, part, tries, yielded, locations, found>>

\* find_locations (or the Point lookup) outside the retry loop: "pano = await
\* result" of the next finished task; a panorama is yielded at once and the
\* row's dict takes it.
YieldResult ==
  /\ pc \in {"find_locations", "point"}
  /\ completed # <<>>
  /\ LET t == as_completed(completed)
     IN /\ tasks[t].st = "done"
        /\ IF tasks[t].result # None
           THEN /\ yielded' = Append(yielded, tasks[t].result[1])
                /\ \E random \in Draws :
                     LET location == pano_to_coordinate(tasks[t].result[1], row,
                                                        panning, random)
                     IN /\ found' = Append(found, location)
                        /\ locations' = dict_set(locations, location)
           ELSE UNCHANGED <<yielded, locations, found>>
        /\ IF AllOthersConsumed(t)
           THEN /\ tasks' = <<>>
                /\ part' = part + 1
                /\ pc' = "geometry"
           ELSE /\ tasks' = [tasks EXCEPT ![t] = Consumed]
                /\ UNCHANGED <<part, pc>>
        /\ completed' = awaited(completed, t)
  /\ UNCHANGED <<outer, self, semaphore, geometry, tries, total_panos, panos>>

\* find_locations_in_geodataframe: the row is searched, coords +=
\* locations.values(), and the next row is taken
NextRow ==
  /\ pc = "done"
  /\ row < Len(gdf)
  /\ coords' = coords \o locations
  /\ row' = row + 1
  /\ geometry' = gdf[row + 1]
  /\ locations' = new_dict(locations)
  /\ found' = <<>>
  /\ yielded' = <<>>
  /\ part' = 1
  /\ tries' = 0
  /\ total_panos' = <<>>
  /\ panos' = <<>>
  /\ pc' = "geometry"
  /\ UNCHANGED <<gdf, panning, provider, filtering, call, self, semaphore, tasks, completed>>

\* find_locations_in_geodataframe: the last row is searched, coords +=
\* locations.values(), return coords
ReturnCoords ==
  /\ pc = "done"
  /\ row = Len(gdf)
  /\ coords' = coords \o locations
  /\ pc' = "returned"
  /\ UNCHANGED <<gdf, panning, provider, filtering, call, row, self, semaphore, geometry, part,
                 tries, total_panos, panos, tasks, completed, yielded, locations,
                 found>>

\* "pano = await result" of a task that raised: the error leaves
\* find_locations and find_locations_in_geometry; the other tasks run on
AwaitRaises ==
  /\ pc \in {"collect", "find_locations", "point"}
  /\ completed # <<>>
  /\ tasks[as_completed(completed)].st = "raised"
  /\ tasks' = [tasks EXCEPT ![as_completed(completed)] = Consumed]
  /\ completed' = awaited(completed, as_completed(completed))
  /\ pc' = "raised"
  /\ UNCHANGED <<outer, self, semaphore, geometry, part, tries, total_panos, panos,
                 yielded, locations, found>>

Next ==
  \/ FindLocationOfPoint
  \/ FindLocationsInPart
  \/ SkipGeometry
  \/ EnsureN
  \/ GeometryDone
  \/ WhileBatch
  \/ WhileSkip
  \/ WhileBail
  \/ WhileExit
  \/ YieldTotalPanos
  \/ CollectResult
  \/ YieldResult
  \/ AwaitRaises
  \/ NextRow
  \/ ReturnCoords
  \/ \E t \in DOMAIN tasks : AcquireSemaphore(t)
  \/ \E t \in DOMAIN tasks : OfficialReturns(t)
  \/ \E t \in DOMAIN tasks : SecondaryReturns(t)
  \/ \E t \in DOMAIN tasks : LookupRaises(t)
  \/ \E t \in DOMAIN tasks : TransientError(t)
  \/ \E t \in DOMAIN tasks : BackoffRetries(t)

Spec == Init /\ [][Next]_vars

\* The event loop runs a step whenever one can be run.
FairSpec == Spec /\ WF_vars(Next)

\* The runs of the fan-out: one geometry searched over few or many points with
\* one or several permits and a provider that answers every call; and, so
\* that every step of the search can be taken, a provider that fails, the
\* retry loop, two rows and an unhandled geometry.
FanoutRuns ==
  {Run([max_connections |-> c, n |-> n, max_retries |-> MaxRetries, ensure_n |-> FALSE,
        options |-> None], <<Geom("Polygon")>>, "Default", {}) :
     c \in {DefaultMaxConnections, MaxConnections}, n \in {1, MaxN + 1}}
  \cup
  {Run([max_connections |-> DefaultMaxConnections, n |-> 1, max_retries |-> 1,
        ensure_n |-> FALSE,
        options |-> Some([DefaultLocationOptions EXCEPT !.allow_third_party = Ignore])],
       <<Geom("Polygon")>>, "Default", Errors)}
  \cup
  {Run([max_connections |-> DefaultMaxConnections, n |-> 1, max_retries |-> 1,
        ensure_n |-> ensure_n, options |-> None], rows, "Default", {}) :
     ensure_n \in BOOLEAN,
     rows \in {<<Geom("Polygon")>>, <<Geom("Point"), Geom("BaseGeometry")>>}}

FanoutInit ==
  /\ \E run \in FanoutRuns : InitRun(run)
  /\ filtering = NotFiltering
  /\ call = NoCall

\* The event loop runs a step whenever one can be run.
FanoutSpec == FanoutInit /\ [][Next]_vars /\ WF_vars(Next)


\* ------------------------------------------------------------ the policy
\* parse_location_option_args: the options --terminus is combined with, the
\* defaults of the command line and every predicate at allow
TerminusOptions ==
  {Some(DefaultLocationOptions),
   Some([DefaultLocationOptions EXCEPT !.allow_third_party = Ignore])}

\* filter_panos(panos, session, options) called on its own, for every options
\* and every panorama, no search running.
PolicyInit ==
  /\ InitRun(Run([max_connections |-> DefaultMaxConnections, n |-> 1, max_retries |-> 0,
                   ensure_n |-> FALSE, options |-> None],
                  <<Geom("Point")>>, "Default", {}))
  /\ \E options \in {None} \cup {Some(o) : o \in LocationOptions}, pano \in PolicyPanos,
        terminus \in PredicateOption :
       /\ terminus # Ignore => options \in TerminusOptions
       /\ filtering = [NotFiltering EXCEPT !.options = options, !.terminus = terminus,
                                          !.panos = <<pano>>]
  /\ call = NoCall

\* filter_panos: "pano for pano in panos if await is_panorama_wanted(pano,
\* session, options)", the next panorama
FilterPano ==
  /\ filtering.evaluated < Len(filtering.panos)
  /\ LET pano == filtering.panos[filtering.evaluated + 1]
     IN filtering' =
          [filtering EXCEPT
             !.evaluated = @ + 1,
             !.wanted = IF is_panorama_wanted(pano, filtering.options)
                        THEN Append(@, pano) ELSE @,
             !.calls = @ + is_panorama_wanted_calls(pano, filtering.options),
             !.checks = @ \o is_panorama_wanted_checks(pano, filtering.options)]
  /\ UNCHANGED <<gdf, panning, provider, row, coords, call, self, semaphore, geometry,
                 part, pc, tries, total_panos, panos, tasks, completed, yielded,
                 locations, found>>

PolicyNext == FilterPano

PolicySpec == PolicyInit /\ [][PolicyNext]_vars


\* ---------------------------------------------------- functions on their own
\* Polygons are sets of positions of the plane of integers: the positions the
\* polygon covers, in the projection get_polygon_lattice works in.
Plane == (0..Extent) \X (0..Extent)
Polygons == {poly \in SUBSET Plane : Cardinality(poly) \in 1..(Extent + 2)}

\* numpy.arange(start, stop, step): start, start + step, ... below stop
arange(start, stop, step) == {v \in start..(stop - 1) : (v - start) % step = 0}

\* projected.bounds
bounds(poly) ==
  LET xs == {p[1] : p \in poly}
      ys == {p[2] : p \in poly}
  IN [min_x |-> CHOOSE x \in xs : \A o \in xs : x <= o,
      min_y |-> CHOOSE y \in ys : \A o \in ys : y <= o,
      max_x |-> CHOOSE x \in xs : \A o \in xs : x >= o,
      max_y |-> CHOOSE y \in ys : \A o \in ys : y >= o]

\* get_polygon_lattice(poly, resolution): the points of the grid over the
\* bounds of poly that poly covers; () when there is none
get_polygon_lattice(poly, resolution) ==
  LET b == bounds(poly)
      points == arange(b.min_x, b.max_x, resolution) \X arange(b.min_y, b.max_y, resolution)
  IN points \cap poly

\* "if not points" left out
LatticeFinder_points_in_polygon_lattice_only(polygon, radius, representative_point) ==
  get_polygon_lattice(polygon, radius)

\* LatticeFinder.points_in_polygon; representative_point is what
\* polygon.representative_point() returns
LatticeFinder_points_in_polygon(polygon, radius, representative_point) ==
  LET points == get_polygon_lattice(polygon, radius) IN
  IF points = {} THEN {representative_point} ELSE points

\* LatticeFinder(radius=...).points_in_polygon(polygon)
LatticeCalls ==
  {Call("points_in_polygon", [polygon |-> polygon, radius |-> radius]) :
     polygon \in Polygons, radius \in 1..(Extent + 1)}

PointsInPolygon ==
  /\ call.function = "points_in_polygon"
  /\ ~call.returned
  /\ \E representative_point \in call.args.polygon :
       call' = [call EXCEPT
                  !.returned = TRUE,
                  !.result = LatticeFinder_points_in_polygon(
                               call.args.polygon, call.args.radius, representative_point)]
  /\ UNCHANGED <<gdf, panning, provider, row, coords, filtering, self, semaphore,
                 geometry, part, pc, tries, total_panos, panos, tasks, completed,
                 yielded, locations, found>>

\* How a call ends: with a value, or with an error raised; fetches counts the
\* calls of find_panorama_by_id_async made.
Returns(value, fetches) == [raised |-> None, value |-> Some(value), fetches |-> fetches]
Raises(error, fetches) == [raised |-> Some(error), value |-> None, fetches |-> fetches]

\* Panorama(pano, has_extended_info, has_places, has_depth); pano is the
\* record wrapped: the one "given" to ensure_full_pano, the "full" one
\* fetched without depth, or the one fetched "full_with_depth"
Panorama(pano, has_places, has_depth) ==
  [pano |-> pano, has_extended_info |-> TRUE, has_places |-> has_places,
   has_depth |-> has_depth]
GivenPanoramas ==
  {p \in [pano : {"given"}, has_extended_info : BOOLEAN, has_places : BOOLEAN,
           has_depth : {FALSE}] : p.has_places => p.has_extended_info}
has_full_info(pano) == pano.has_extended_info /\ pano.has_places

\* find_panorama_by_id_async: it returns a record or None, or it raises; a
\* malformed response raises ValueError or IndexError
ByIdErrors == {"ValueError", "IndexError", "ClientResponseError"}
ByIdResponses == {"pano", "None"} \cup ByIdErrors

\* "if not download_depth" left out: the error is raised again in every case
ensure_full_pano_reraises(pano, download_depth, responses) ==
  IF ~download_depth /\ has_full_info(pano) THEN Returns(pano, 0)
  ELSE IF responses[1] \in ByIdErrors THEN Raises(responses[1], 1)
  ELSE IF responses[1] = "pano"
       THEN Returns(Panorama(IF download_depth THEN "full_with_depth" ELSE "full",
                             TRUE, download_depth), 1)
  ELSE Returns(pano, 1)

\* ensure_full_pano(pano, session, download_depth=...); responses are what the
\* calls of find_panorama_by_id_async do, in the order they are made
ensure_full_pano(pano, download_depth, responses) ==
  IF ~download_depth /\ has_full_info(pano) THEN Returns(pano, 0)
  ELSE IF responses[1] \in {"ValueError", "IndexError"}
       THEN IF ~download_depth THEN Raises(responses[1], 1)
            ELSE IF has_full_info(pano)
                 THEN Returns(Panorama(pano.pano, TRUE, download_depth), 1)
            ELSE IF responses[2] \in ByIdErrors THEN Raises(responses[2], 2)
            ELSE IF responses[2] = "pano"
                 THEN Returns(Panorama("full", TRUE, download_depth), 2)
            ELSE Returns(pano, 2)
  ELSE IF responses[1] \in ByIdErrors THEN Raises(responses[1], 1)
  ELSE IF responses[1] = "pano"
       THEN Returns(Panorama(IF download_depth THEN "full_with_depth" ELSE "full",
                             TRUE, download_depth), 1)
  ELSE Returns(pano, 1)

EnsureFullPanoCalls ==
  {Call("ensure_full_pano",
        [pano |-> pano, download_depth |-> download_depth, responses |-> <<first, second>>]) :
     pano \in GivenPanoramas, download_depth \in BOOLEAN,
     first \in ByIdResponses, second \in ByIdResponses}

EnsureFullPano ==
  /\ call.function = "ensure_full_pano"
  /\ ~call.returned
  /\ call' = [call EXCEPT
                !.returned = TRUE,
                !.result = ensure_full_pano(call.args.pano, call.args.download_depth,
                                            call.args.responses)]
  /\ UNCHANGED <<gdf, panning, provider, row, coords, filtering, self, semaphore,
                 geometry, part, pc, tries, total_panos, panos, tasks, completed,
                 yielded, locations, found>>

\* PanningModeType: None, a PanningMode, or a float
PanningMode == {"Default", "Skewed", "OriginalPoint", "Random"}
PanningModeType == {"None", "float"} \cup PanningMode

\* OriginalPoint as soon as one of the two coordinates is given
auto_panning_either(mode, original_lat, original_lng) ==
  IF mode = "None"
  THEN IF original_lat # None \/ original_lng # None THEN "OriginalPoint" ELSE "Default"
  ELSE mode

\* pano_to_coordinate: "if panning is None: panning = ..."
auto_panning(mode, original_lat, original_lng) ==
  IF mode = "None"
  THEN IF original_lat # None /\ original_lng # None THEN "OriginalPoint" ELSE "Default"
  ELSE mode

\* get_panning(pano, mode, original_lat, original_lng, random) raises ValueError
get_panning_raises(mode, original_lat, original_lng) ==
  mode = "OriginalPoint" /\ (original_lat = None \/ original_lng = None)

\* pano_to_coordinate(pano, original_lat, original_lng, panning=...,
\* snap_to_original_point=...): the Coordinate is told by where its position
\* and its panning come from
pano_to_coordinate_call(original_lat, original_lng, panning_mode, snap_to_original_point) ==
  LET mode == auto_panning(panning_mode, original_lat, original_lng) IN
  IF mode \in PanningMode /\ get_panning_raises(mode, original_lat, original_lng)
  THEN Raises("ValueError", 0)
  ELSE IF snap_to_original_point /\ (original_lat = None \/ original_lng = None)
  THEN Raises("ValueError", 0)
  ELSE Returns([position |-> IF snap_to_original_point THEN "original" ELSE "pano",
                panning |-> mode], 0)

PanoToCoordinateCalls ==
  {Call("pano_to_coordinate",
        [original_lat |-> original_lat, original_lng |-> original_lng,
         panning |-> mode, snap_to_original_point |-> snap]) :
     original_lat \in {None, Some(1)}, original_lng \in {None, Some(1)},
     mode \in PanningModeType, snap \in BOOLEAN}

PanoToCoordinate ==
  /\ call.function = "pano_to_coordinate"
  /\ ~call.returned
  /\ call' = [call EXCEPT
                !.returned = TRUE,
                !.result = pano_to_coordinate_call(
                             call.args.original_lat, call.args.original_lng,
                             call.args.panning, call.args.snap_to_original_point)]
  /\ UNCHANGED <<gdf, panning, provider, row, coords, filtering, self, semaphore,
                 geometry, part, pc, tries, total_panos, panos, tasks, completed,
                 yielded, locations, found>>

\* One function is called on its own, no search running.
FunctionInit ==
  /\ InitRun(Run([max_connections |-> DefaultMaxConnections, n |-> 1, max_retries |-> 0,
                   ensure_n |-> FALSE, options |-> None],
                  <<Geom("Point")>>, "Default", {}))
  /\ filtering = NotFiltering
  /\ call \in LatticeCalls \cup EnsureFullPanoCalls \cup PanoToCoordinateCalls

FunctionNext ==
  \/ PointsInPolygon
  \/ EnsureFullPano
  \/ PanoToCoordinate

FunctionSpec == FunctionInit /\ [][FunctionNext]_vars


\* ================================================================ claims
Finished(t) == tasks[t].st \in {"done", "raised", "consumed"}
LookupsInFlight == {t \in DOMAIN tasks : InFlight(t)}
\* the options reject third party coverage, or there are none
RejectsUnofficial ==
  self.options = None \/ self.options[1].allow_third_party = Reject
\* the retry loop ran over the whole geometry (it is no Point and no collection)
RetryLoopDone ==
  pc = "done" /\ self.ensure_n /\ geometry.kind \notin {"Point", "GeometryCollection"}
IsScenario4 == self.ensure_n /\ self.n = 5 /\ self.max_retries = 1

\* C1: at every moment the number of find_location calls in progress (started,
\* neither returned nor raised) is at most max_connections.
C1_InFlightAtMostMaxConnections ==
  Cardinality(LookupsInFlight) <= self.max_connections

\* C1 witness: find_locations runs as many lookups as there are permits while
\* another task waits for one.
C1_Witness ==
  /\ pc = "find_locations"
  /\ Cardinality(LookupsInFlight) = self.max_connections
  /\ \E t \in DOMAIN tasks : tasks[t].st = "waiting"

\* C2 as claimed: every lookup in progress, the direct lookup of a Point
\* included, holds a permit of the finder's semaphore.
C2_EveryLookupHoldsPermit ==
  \A t \in DOMAIN tasks : InFlight(t) => tasks[t].permit

\* C2 amended: a lookup in progress holds a permit exactly when it runs in a
\* task of find_locations; the direct lookup of a Point geometry holds none,
\* and takes none from the semaphore.
C2_PermitExactlyInTasks ==
  /\ \A t \in DOMAIN tasks : InFlight(t) => (tasks[t].permit <=> pc # "point")
  /\ semaphore.value + Cardinality({t \in DOMAIN tasks : tasks[t].permit})
       = self.max_connections

\* C2 witness: the lookup of a Point is in progress with every permit free.
C2_Witness ==
  /\ pc = "point"
  /\ \E t \in DOMAIN tasks : InFlight(t) /\ ~tasks[t].permit
  /\ semaphore.value = self.max_connections

\* C3: once every task of a batch has finished, by returning or by raising,
\* every permit is available again and nobody waits.
C3_PermitsBackWhenBatchFinished ==
  (\A t \in DOMAIN tasks : Finished(t)) =>
     semaphore.value = self.max_connections /\ semaphore.waiters = <<>>

\* C3 witness: a batch of several tasks, one of which raised, has finished and
\* the permits are back.
C3_Witness ==
  /\ pc = "raised"
  /\ Len(tasks) >= 2
  /\ \A t \in DOMAIN tasks : Finished(t)
  /\ \E t \in DOMAIN tasks : tasks[t].st = "raised"
  /\ semaphore.value = self.max_connections

C5_NDistinctWhenTargetReached ==
  (RetryLoopDone /\ Len(total_panos) >= self.n) => Len(locations) = self.n

\* C6 as claimed: no batch is issued once the attempt count exceeds
\* max_retries, for every max_retries >= 0.
C6_NoBatchBeyondBudget ==
  pc = "collect" => tries <= self.max_retries

C8_BatchIsShortfall ==
  pc = "collect" => Len(tasks) = self.n - Len(total_panos)

\* C8 amended: each batch of the retry loop draws a number of points that
\* does not depend on the accepted count: n for a polygon, every member point
\* for a MultiPoint.
C8_BatchIsWholeDraw ==
  pc = "collect" =>
     Len(tasks) = IF Part.kind = "MultiPoint" THEN Len(Part.geoms) ELSE self.n

\* C8 witness: a later batch over a polygon, something already accepted, that
\* draws n points, more than are missing.
C8_Witness ==
  /\ pc = "collect"
  /\ Part.kind = "Polygon"
  /\ total_panos # <<>>
  /\ Len(tasks) = self.n
  /\ Len(tasks) > self.n - Len(total_panos)

\* C9: when the official lookup finds nothing and third party coverage is
\* rejected (or there are no options), find_location returns None after one
\* lookup only.
C9_NoSecondaryWhenUnofficialRejected ==
  \A t \in DOMAIN tasks :
    (tasks[t].st = "done" /\ tasks[t].tier1 = "none" /\ RejectsUnofficial) =>
       tasks[t].result = None /\ tasks[t].calls = 1

\* C9 witness: such a find_location call has returned.
C9_Witness ==
  \E t \in DOMAIN tasks :
    /\ tasks[t].st = "done" /\ tasks[t].tier1 = "none" /\ RejectsUnofficial
    /\ tasks[t].result = None /\ tasks[t].calls = 1

\* C10: the official lookup comes first; an official panorama that passes the
\* policy is returned after that one lookup; the second lookup is made at
\* most once and only when the official one found nothing or was rejected and
\* third party coverage is not rejected.
C10_OfficialFirstSecondaryOnce ==
  \A t \in DOMAIN tasks :
    /\ tasks[t].st = "secondary" => tasks[t].tier1 # "pending"
    /\ tasks[t].st = "official" => tasks[t].calls = 1 /\ tasks[t].tier1 = "pending"
    /\ (tasks[t].st = "done" /\ tasks[t].tier1 = "accepted") =>
         /\ tasks[t].calls = 1
         /\ tasks[t].result # None
         /\ is_panorama_wanted(tasks[t].result[1], self.options)
    /\ tasks[t].calls <= 2
    /\ tasks[t].calls = 2 =>
         /\ tasks[t].tier1 \in {"none", "rejected"}
         /\ ~RejectsUnofficial

\* C10 witness: the official panorama was rejected, the second lookup was made
\* and its panorama returned.
C10_Witness ==
  \E t \in DOMAIN tasks :
    /\ tasks[t].st = "done" /\ tasks[t].tier1 = "rejected"
    /\ tasks[t].calls = 2 /\ tasks[t].result # None

\* the errors backoff is told to retry
Transient == {"ClientConnectionError", "JSONDecodeError"}

\* C11 as claimed: a lookup that failed transiently and sleeps before its
\* next attempt is retried finitely many times only: the retries end, the
\* error is raised on and no lookup stays in progress.
C11_TransientFailureSurfaces ==
  (\E t \in DOMAIN tasks : tasks[t].st = "backoff")
    ~> (\A t \in DOMAIN tasks : ~InFlight(t))

\* C12 as claimed: a lookup that raised counts as a point without a panorama:
\* find_locations goes on, so no accepted panorama of another lookup is ever
\* left behind by find_locations having ended with that error.
C12_FailedLookupYieldsNothing ==
  \A t \in DOMAIN tasks :
    (tasks[t].st = "done" /\ tasks[t].result # None) => pc # "raised"

\* C13: an error of the provider call that is neither a connection error nor
\* a malformed response is never followed by a retry: the lookup has raised
\* it; where the provider raises no other error, it raised after exactly one
\* attempt.
C13_OtherErrorsNotRetried ==
  \A t \in DOMAIN tasks :
    /\ (tasks[t].error # None /\ tasks[t].error[1] \notin Transient) =>
         tasks[t].st = "raised"
    /\ (tasks[t].st = "raised" /\ provider \cap Transient = {}) =>
         tasks[t].attempts = 1

\* C13 witness: a lookup raised an HTTP error status at its first attempt.
C13_Witness ==
  \E t \in DOMAIN tasks :
    /\ tasks[t].st = "raised"
    /\ tasks[t].error = Some("ClientResponseError")
    /\ tasks[t].attempts = 1

\* C14: within one call of find_locations the panoramas are yielded in the
\* order their lookups finish: each panorama yielded is the result of the
\* task that finished first among the finished tasks not yet awaited,
\* whatever the order of submission.
C14_YieldedInCompletionOrder ==
  [][(pc = "find_locations" /\ yielded' # yielded) =>
       /\ completed # <<>>
       /\ tasks[Head(completed)].result # None
       /\ yielded' = Append(yielded, tasks[Head(completed)].result[1])
       /\ completed' = Tail(completed)]_vars

\* C14 witness: of two points, the panorama of the second was yielded while
\* the lookup of the first, finished later with another panorama, waits to be
\* awaited.
C14_Witness ==
  /\ pc = "find_locations"
  /\ Len(tasks) = 2
  /\ tasks[2].st = "consumed"
  /\ tasks[1].st = "done"
  /\ tasks[1].result # None
  /\ Len(yielded) = 1
  /\ yielded[1] # tasks[1].result[1]

\* no two entries of the sequence of locations d have the same panorama id
DistinctIds(d) ==
  \A i, j \in 1..Len(d) : d[i].pano_id = d[j].pano_id => i = j
\* the first location the row yielded with panorama id id
FirstSeen(id) ==
  found[CHOOSE i \in 1..Len(found) :
          /\ found[i].pano_id = id
          /\ \A j \in 1..(i - 1) : found[j].pano_id # id]
\* the entries of coords that come from row r
OfRow(r) == SelectSeq(coords, LAMBDA c : c.extra = r)

\* C15: the locations kept for a row, and added to coords when the row is
\* done, hold no panorama id twice, whatever the finder yielded; every id
\* yielded is kept.
C15_NoDuplicateIdsInRow ==
  /\ DistinctIds(locations)
  /\ {locations[i].pano_id : i \in 1..Len(locations)}
       = {found[i].pano_id : i \in 1..Len(found)}

\* C15 witness: the row is searched, the finder yielded the same id more than
\* once and the id is kept once.
C15_Witness ==
  /\ pc = "returned"
  /\ Len(found) >= 2
  /\ ~DistinctIds(found)
  /\ Len(locations) < Len(found)

\* C16 as claimed: the location kept for a panorama id is the record made of
\* the first yield of that id; the later ones are discarded.
C16_FirstSeenKept ==
  \A i \in 1..Len(locations) : locations[i] = FirstSeen(locations[i].pano_id)

\* C17: every row has its own dict: coords holds the locations row by row, in
\* the order of the rows, no panorama id twice within the locations of one
\* row, and a panorama id found from two rows once for each.
C17_DedupPerRow ==
  /\ \A i, j \in 1..Len(coords) : i < j => coords[i].extra <= coords[j].extra
  /\ \A r \in 1..Len(gdf) : DistinctIds(OfRow(r))
  /\ \A i \in 1..Len(coords) :
       coords[i].extra < row \/ (pc = "returned" /\ coords[i].extra = row)
  /\ \A i \in 1..Len(locations) : locations[i].extra = row

\* C17 witness: two rows are searched and coords holds the same panorama id
\* twice, first from the first row and then from the second.
C17_Witness ==
  /\ pc = "returned"
  /\ Len(gdf) = 2
  /\ \E i, j \in 1..Len(coords) :
       /\ i < j
       /\ coords[i].pano_id = coords[j].pano_id
       /\ coords[i].extra = 1
       /\ coords[j].extra = 2

\* ------------------------------------------------- claims about the policy
\* filter_panos has evaluated its panorama
Evaluated == filtering.evaluated = 1 /\ Len(filtering.panos) = 1
\* every predicate of the options is Ignore and reject_gen_1 is unset
AllIgnore ==
  filtering.options =
    Some([trekker |-> Ignore, reject_gen_1 |-> FALSE, intersections |-> Ignore,
          buildings |-> Ignore, allow_third_party |-> Ignore])

\* C18: with every predicate at ignore and reject_gen_1 unset, every panorama
\* is wanted, official or third party, whatever its metadata.
C18_AllIgnoreWantsEverything ==
  (Evaluated /\ AllIgnore) => filtering.wanted = filtering.panos

\* C18 witness: a third party panorama without places, extended info or known
\* generation was evaluated under such options and kept.
C18_Witness ==
  /\ Evaluated /\ AllIgnore
  /\ filtering.panos[1].is_third_party
  /\ filtering.panos[1].places = <<>>
  /\ ~filtering.panos[1].has_extended_info
  /\ filtering.wanted = filtering.panos

\* C19 as claimed: with every predicate at ignore and reject_gen_1 unset, the
\* policy makes no call of the provider, also for a panorama without extended
\* info.
C19_NoFetchWhenAllIgnore ==
  (Evaluated /\ AllIgnore) => filtering.calls = 0

\* C20: with buildings at require or at reject, a panorama for which no place
\* is known is not wanted.
C20_NoPlacesFailsBuildings ==
  (/\ Evaluated
   /\ filtering.options # None
   /\ filtering.options[1].buildings \in {Require, Reject}
   /\ filtering.panos[1].places = <<>>)
    => filtering.wanted = <<>>

\* C20 witness: buildings is reject, no place is known for the panorama, which
\* every other predicate lets pass, and the panorama is not wanted.
C20_Witness ==
  /\ Evaluated
  /\ filtering.options # None
  /\ filtering.options[1].buildings = Reject
  /\ filtering.panos[1].places = <<>>
  /\ is_panorama_wanted(filtering.panos[1],
                        Some([filtering.options[1] EXCEPT !.buildings = Ignore]))
  /\ filtering.wanted = <<>>

\* C21 as claimed: the policy applies the terminus predicate: with terminus at
\* require only a panorama with exactly one link is wanted, with terminus at
\* reject a panorama with exactly one link is not wanted.
C21_TerminusApplied ==
  Evaluated =>
    /\ (filtering.terminus = Require /\ filtering.wanted # <<>>)
         => is_terminus(filtering.panos[1])
    /\ (filtering.terminus = Reject /\ is_terminus(filtering.panos[1]))
         => filtering.wanted = <<>>

\* the panorama passes every predicate of the options but the generation rule
PassesOtherPredicates ==
  /\ filtering.options # None
  /\ is_panorama_wanted(filtering.panos[1],
                        Some([filtering.options[1] EXCEPT !.reject_gen_1 = FALSE]))

\* C22: with reject_gen_1 set, a panorama that passes the other predicates is
\* not wanted exactly when it is official and of generation 1 (3328 x 1664);
\* generation 2 or 3, generation 4, an unknown size and every third party
\* panorama pass.
C22_OnlyGen1Rejected ==
  (Evaluated /\ PassesOtherPredicates /\ filtering.options[1].reject_gen_1)
    => (filtering.wanted = <<>>
          <=> (/\ ~filtering.panos[1].is_third_party
               /\ filtering.panos[1].image_size = <<3328, 1664>>))

\* C22 witness: reject_gen_1 is set and a third party panorama of the size of
\* generation 1, which passes the other predicates, is wanted.
C22_Witness ==
  /\ Evaluated
  /\ PassesOtherPredicates
  /\ filtering.options[1].reject_gen_1
  /\ filtering.panos[1].is_third_party
  /\ filtering.panos[1].image_size = <<3328, 1664>>
  /\ filtering.wanted = filtering.panos

\* the options filter_panos works with
FilterOptions ==
  IF filtering.options = None THEN DefaultLocationOptions ELSE filtering.options[1]
\* the verdict of one check on the panorama, taken alone
Passes(check) ==
  LET pano == filtering.panos[1] IN
  CASE check = "allow_third_party" ->
         /\ ~(FilterOptions.allow_third_party = Require /\ ~pano.is_third_party)
         /\ ~(FilterOptions.allow_third_party = Reject /\ pano.is_third_party)
    [] check = "_check_buildings" -> _check_buildings(pano, FilterOptions.buildings)
    [] check = "is_trekker" -> _check_predicate(pano, FilterOptions.trekker, "is_trekker")
    [] check = "is_intersection" ->
         _check_predicate(pano, FilterOptions.intersections, "is_intersection")
    [] check = "camera_gen" ->
         ~FilterOptions.reject_gen_1 \/ camera_gen(pano) = None \/ camera_gen(pano)[1] > 10
\* the calls of the provider one check makes for the panorama, taken alone
FetchesOf(check) ==
  LET pano == filtering.panos[1] IN
  CASE check = "allow_third_party" -> 0
    [] check = "_check_buildings" -> _check_buildings_calls(pano, FilterOptions.buildings)
    [] check = "is_trekker" -> _check_predicate_calls(pano, FilterOptions.trekker)
    [] check = "is_intersection" -> _check_predicate_calls(pano, FilterOptions.intersections)
    [] check = "camera_gen" -> camera_gen_calls(pano)
RECURSIVE FetchesOfAll(_)
FetchesOfAll(checks) ==
  IF checks = <<>> THEN 0 ELSE FetchesOf(Head(checks)) + FetchesOfAll(Tail(checks))
FixedOrder == <<"allow_third_party", "_check_buildings", "is_trekker", "is_intersection",
                "camera_gen">>

\* C23: the checks made are a beginning of the fixed order coverage class,
\* buildings, trekker, intersection, generation; every check before the last
\* one made passes; the last one made rejects when the panorama is not wanted
\* and is the generation when it is wanted; the calls of the provider are
\* those of the checks made and of no later one.
C23_FixedOrderShortCircuit ==
  Evaluated =>
    LET made == Len(filtering.checks) IN
    /\ made >= 1
    /\ filtering.checks = SubSeq(FixedOrder, 1, made)
    /\ \A i \in 1..(made - 1) : Passes(FixedOrder[i])
    /\ filtering.wanted = <<>> => ~Passes(FixedOrder[made])
    /\ filtering.wanted # <<>> => (made = Len(FixedOrder) /\ Passes(FixedOrder[made]))
    /\ filtering.calls = FetchesOfAll(filtering.checks)

\* C23 witness: the buildings check rejects a panorama without extended info
\* while trekker coverage is required: the trekker check, which would fetch,
\* is not made and the one call is that of the buildings check.
C23_Witness ==
  /\ Evaluated
  /\ filtering.options # None
  /\ filtering.options[1].buildings = Require
  /\ filtering.options[1].trekker = Require
  /\ ~filtering.panos[1].has_extended_info
  /\ filtering.checks = <<"allow_third_party", "_check_buildings">>
  /\ filtering.wanted = <<>>
  /\ filtering.calls = 1

\* ------------------------------------------ claims about unhandled geometries
\* find_locations_in_geometry stands at a part of a kind the finder has no
\* points for
AtUnhandledPart ==
  /\ pc \in {"geometry", "while"}
  /\ part <= Len(Leaves(geometry))
  /\ Leaves(geometry)[part].kind = "BaseGeometry"

\* C24: a step taken at a part of an unhandled kind yields nothing, starts no
\* lookup and raises nothing: it enters the retry loop, or it leaves the part
\* for the next part of the geometry, in the plain search and in the loop.
C24_UnhandledKindSkipped ==
  [][AtUnhandledPart =>
       /\ yielded' = yielded
       /\ found' = found
       /\ tasks' = tasks
       /\ \/ pc = "geometry" /\ pc' = "while" /\ part' = part
          \/ pc' = "geometry" /\ part' = part + 1]_vars

\* C24 witness: the retry loop has skipped the unhandled first part of a
\* GeometryCollection, and the polygon after it has been searched and has
\* yielded a panorama.
C24_Witness ==
  /\ self.ensure_n
  /\ geometry = GeometryCollection(<<Geom("BaseGeometry"), Geom("Polygon")>>)
  /\ part = 3
  /\ pc = "done"
  /\ Len(yielded) = 1

\* ------------------------------------------- claims about single functions
\* the call of the function has ended
Ended(function) == call.function = function /\ call.returned

\* C25: LatticeFinder.points_in_polygon never returns an empty collection of
\* points: where the grid has no point inside the polygon it returns exactly
\* one point, a point of the polygon, and otherwise the points of the grid.
C25_LatticeNeverEmpty ==
  Ended("points_in_polygon") =>
    LET lattice == get_polygon_lattice(call.args.polygon, call.args.radius) IN
    /\ call.result # {}
    /\ call.result \subseteq call.args.polygon
    /\ lattice = {} => Cardinality(call.result) = 1
    /\ lattice # {} => call.result = lattice

\* C25 witness: the grid at the radius asked for has no point inside a polygon
\* of several positions, and one point of the polygon has been returned.
C25_Witness ==
  /\ Ended("points_in_polygon")
  /\ Cardinality(call.args.polygon) > 1
  /\ get_polygon_lattice(call.args.polygon, call.args.radius) = {}
  /\ Cardinality(call.result) = 1

\* the request with depth was made and its response was malformed
DepthRequestMalformed ==
  /\ Ended("ensure_full_pano")
  /\ call.args.download_depth
  /\ call.args.responses[1] \in {"ValueError", "IndexError"}
\* the request without depth was made and its response was malformed
PlainRequestMalformed ==
  /\ Ended("ensure_full_pano")
  /\ ~call.args.download_depth
  /\ ~has_full_info(call.args.pano)
  /\ call.args.responses[1] \in {"ValueError", "IndexError"}
\* the record given is not full and the second request, without depth, raises
RefetchRaises ==
  /\ ~has_full_info(call.args.pano)
  /\ call.args.responses[2] \in {"ValueError", "IndexError", "ClientResponseError"}

\* C26 as claimed: with depth requested a malformed response is recovered
\* from and a panorama is returned, nothing raised; without depth the error
\* is propagated.
C26_DepthErrorRecovered ==
  /\ DepthRequestMalformed =>
       (call.result.raised = None /\ call.result.value # None)
  /\ PlainRequestMalformed =>
       call.result.raised = Some(call.args.responses[1])

\* C26 amended: with depth requested a malformed response is recovered from:
\* a full record is reused, otherwise the record is requested again without
\* depth, and a panorama is returned unless that second request raises, whose
\* error is propagated; without depth the error is propagated.
C26_DepthErrorRecoveredUnlessRefetchRaises ==
  /\ (DepthRequestMalformed /\ has_full_info(call.args.pano)) =>
       /\ call.result.raised = None
       /\ call.result.value # None
       /\ call.result.value[1].pano = "given"
       /\ call.result.fetches = 1
  /\ (DepthRequestMalformed /\ ~has_full_info(call.args.pano) /\ ~RefetchRaises) =>
       /\ call.result.raised = None
       /\ call.result.value # None
       /\ call.result.value[1].pano \in {"given", "full"}
       /\ call.result.fetches = 2
  /\ (DepthRequestMalformed /\ RefetchRaises) =>
       call.result.raised = Some(call.args.responses[2])
  /\ PlainRequestMalformed =>
       call.result.raised = Some(call.args.responses[1])

\* C26 witness: the request with depth was malformed, the record was not
\* full, the second request returned the record and a panorama was returned.
C26_Witness ==
  /\ DepthRequestMalformed
  /\ ~has_full_info(call.args.pano)
  /\ call.args.responses[2] = "pano"
  /\ call.result.raised = None
  /\ call.result.value[1].pano = "full"
  /\ call.result.value[1].has_depth

\* one of the original coordinates is missing
OriginalMissing == call.args.original_lat = None \/ call.args.original_lng = None

\* C27: pano_to_coordinate raises ValueError exactly when an original
\* coordinate is missing while panning is OriginalPoint or the location is
\* snapped to the original point, and returns a Coordinate otherwise; with
\* panning None the Coordinate is panned to the original point when both
\* coordinates are given and by default otherwise.
C27_ValueErrorOnlyWithoutOriginal ==
  Ended("pano_to_coordinate") =>
    /\ call.result.raised = Some("ValueError")
         <=> (/\ OriginalMissing
              /\ \/ call.args.panning = "OriginalPoint"
                 \/ call.args.snap_to_original_point)
    /\ call.result.raised = None <=> call.result.value # None
    /\ (call.args.panning = "None" /\ call.result.value # None) =>
         call.result.value[1].panning =
           IF OriginalMissing THEN "Default" ELSE "OriginalPoint"

\* C27 witness: panning is None and only one original coordinate is given:
\* the Coordinate is returned, panned by default.
C27_Witness ==
  /\ Ended("pano_to_coordinate")
  /\ call.args.panning = "None"
  /\ call.args.original_lat # None
  /\ call.args.original_lng = None
  /\ ~call.args.snap_to_original_point
  /\ call.result.raised = None
  /\ call.result.value[1].panning = "Default"

\* ------------------------------------------- claims about what is delivered
\* the panorama passes the policy under the options of the finder, and it is
\* official when third party coverage is rejected
AcceptedByPolicy(pano) ==
  /\ is_panorama_wanted(pano, self.options)
  /\ RejectsUnofficial => ~pano.is_third_party
Elements(seq) == {seq[i] : i \in 1..Len(seq)}

\* C28: every panorama a find_location call has returned, from either lookup,
\* and every panorama collected or yielded, by find_locations, by the retry
\* loop or for a Point, passes the policy under the options of the finder; no
\* third party panorama is among them when third party coverage is rejected.
C28_OnlyWantedPanoramasReturned ==
  /\ \A t \in DOMAIN tasks :
       tasks[t].result # None => AcceptedByPolicy(tasks[t].result[1])
  /\ \A pano \in Elements(yielded) \cup Elements(panos) \cup Elements(total_panos) :
       AcceptedByPolicy(pano)

\* C28 witness: third party coverage is required; the official lookup found a
\* panorama that was rejected, the second lookup found a third party panorama,
\* which was returned and yielded.
C28_Witness ==
  /\ self.options # None
  /\ self.options[1].allow_third_party = Require
  /\ pc = "done"
  /\ yielded # <<>>
  /\ \A pano \in Elements(yielded) : pano.is_third_party

\* C29: in the retry loop nothing is yielded while batches are issued and
\* collected; a batch is left only when the result of every one of its lookups
\* has been awaited; and the panoramas yielded once the loop has stopped are
\* the first ones accumulated, in the order they were accumulated.
C29_YieldOnlyAfterLoop ==
  [][/\ pc \in {"while", "collect"} => (yielded' = yielded /\ found' = found)
     /\ (pc = "collect" /\ pc' = "while") =>
          /\ \A t \in DOMAIN tasks : tasks[t].st \in {"done", "consumed"}
          /\ Cardinality({t \in DOMAIN tasks : tasks[t].st = "done"}) = 1
          /\ Len(total_panos') >= Len(total_panos)
          /\ SubSeq(total_panos', 1, Len(total_panos)) = total_panos
     /\ pc = "yield" =>
          /\ Len(yielded') <= Len(yielded) + Len(total_panos)
          /\ \A i \in 1..Len(yielded) : yielded'[i] = yielded[i]
          /\ \A i \in 1..(Len(yielded') - Len(yielded)) :
               yielded'[Len(yielded) + i] = total_panos[i]]_vars

\* C29 witness: the loop took two batches, accumulated more than n panoramas
\* and stopped; the first n, two different ones, were yielded in their order.
C29_Witness ==
  /\ RetryLoopDone
  /\ tries >= 2
  /\ Len(total_panos) > self.n
  /\ Len(yielded) = 2
  /\ yielded[1] # yielded[2]
  /\ yielded = SubSeq(total_panos, 1, 2)
  /\ yielded # SubSeq(total_panos, Len(total_panos) - 1, Len(total_panos))

\* ------------------------------------------------- claims about progress
\* the tasks one call of find_locations can make
TaskIds == 1..(IF MaxN > 5 THEN MaxN ELSE 5)
\* no call of the provider has ended with an error
NoProviderError ==
  \A t \in DOMAIN tasks : tasks[t].st \notin {"backoff", "raised"}
\* task t is made and has no permit yet
AwaitsPermit(t) == t \in DOMAIN tasks /\ tasks[t].st \in {"created", "waiting"}

\* C30: as long as every call of the provider returns, every task of
\* find_locations that has no permit yet gets one, and find_locations awaits
\* every task it made and ends, whatever the number of points and of permits.
C30_FanoutFinishes ==
  []NoProviderError =>
    /\ \A t \in TaskIds : AwaitsPermit(t) ~> ~AwaitsPermit(t)
    /\ (tasks # <<>>) ~> (tasks = <<>>)

\* C30 witness: with one permit and at least three tasks, the first task has
\* finished and was awaited, the second holds the permit, the third waits.
C30_Witness ==
  /\ self.max_connections = 1
  /\ Len(tasks) >= 3
  /\ tasks[1].st = "consumed"
  /\ tasks[2].st = "official" /\ tasks[2].permit
  /\ tasks[3].st = "waiting"
  /\ semaphore.waiters = <<3>>

====
